---- MODULE Spec2Model ----
(***************************************************************************)
(* Model of the CI scripts of mcpgithubactionsdemo:                        *)
(*   update-readme-with-issues.js  (src/unnamed/part_001)                  *)
(*   openai-mcp-analysis.js        (src/unnamed/part_000)                  *)
(*   mcp-analysis.js               (src/.github/scripts/mcp-analysis.js)   *)
(*                                                                         *)
(* Text is a sequence of tokens.  The characters the code inspects ("#",   *)
(* blank, newline, letters of a label) are one token each; a run of other  *)
(* characters (a title, a URL, a table row) is one opaque token.           *)
(***************************************************************************)
EXTENDS Integers, Sequences, FiniteSets, TLC

VARIABLES
    issues,      \* the issue list handed to categorizeIssues
    categories,  \* the buckets categorizeIssues returned
    section,     \* the lines generateIssuesSection returned
    now,         \* the wall clock at render time, in days
    stage,       \* progress of the pure-function specifications
    readme,      \* README.md: [exists, text]
    unrelated,   \* history: README.md before the run, and its hand-written parts
    tracker,     \* the entries the issue tracker holds, in the order it lists them
    runs,        \* history: number of updateReadme calls so far
    pc,          \* position of the running script
    script,      \* which script runs
    env,         \* the process environment the script reads
    mcpClient,   \* main's mcpClient variable and the connection's state
    page,        \* fetchAllIssues' page counter
    allIssues,   \* fetchAllIssues' accumulator
    prInfo,      \* runAnalysis' prInfo
    ops,         \* history: the external operations issued, in order
    exitCode,    \* the process exit code, or NoExit while running
    summary,     \* whether ai-analysis-summary.md was written
    pending      \* the text handed to fs.writeFile and not yet written

dataVars == <<issues, categories, section, now, stage>>
docVars  == <<readme, unrelated, tracker, runs>>
procVars == <<pc, script, env, mcpClient, page, allIssues, prInfo, ops, exitCode, summary,
              pending>>
vars     == <<issues, categories, section, now, stage, readme, unrelated, tracker, runs,
              pc, script, env, mcpClient, page, allIssues, prInfo, ops, exitCode, summary,
              pending>>

(***************************************************************************)
(* Bounds of the model.                                                    *)
(***************************************************************************)
MaxIssues == 3
MaxRender == 25
MaxRuns == 2
MaxPages == 3

(***************************************************************************)
(* Strings as character sequences.                                         *)
(***************************************************************************)
toLowerChar(c) ==
    CASE c = "B" -> "b"
      [] c = "D" -> "d"
      [] c = "F" -> "f"
      [] c = "H" -> "h"
      [] c = "W" -> "w"
      [] OTHER   -> c

toLowerCase(s) == [i \in 1..Len(s) |-> toLowerChar(s[i])]

includes(s, k) ==
    \E i \in 1..(Len(s) - Len(k) + 1) : SubSeq(s, i, i + Len(k) - 1) = k

Range(s) == { s[i] : i \in 1..Len(s) }

(***************************************************************************)
(* The keywords of categorizeIssues, as written in its conditions.         *)
(***************************************************************************)
kwBug          == <<"b","u","g">>
kwError        == <<"e","r","r","o","r">>
kwFix          == <<"f","i","x">>
kwEnhancement  == <<"e","n","h","a","n","c","e","m","e","n","t">>
kwFeature      == <<"f","e","a","t","u","r","e">>
kwImprovement  == <<"i","m","p","r","o","v","e","m","e","n","t">>
kwDocumentation == <<"d","o","c","u","m","e","n","t","a","t","i","o","n">>
kwDocs         == <<"d","o","c","s">>
kwHelpWanted   == <<"h","e","l","p"," ","w","a","n","t","e","d">>
kwHelpDashWanted == <<"h","e","l","p","-","w","a","n","t","e","d">>
kwGoodFirstIssue == <<"g","o","o","d"," ","f","i","r","s","t"," ","i","s","s","u","e">>
kwBeginner     == <<"b","e","g","i","n","n","e","r">>

(***************************************************************************)
(* Issue records as the tracker delivers them.  A label is bare text       *)
(* (kind "string"), an object with a name ("object"), an object whose name  *)
(* is a number ("number"), an object without a name ("noname") or null     *)
(* ("null"); hasLabels is FALSE when the labels field is missing.          *)
(* closed_at is a day number, or NoDate when null.  An entry of the list   *)
(* is an object (entry "object") or null (entry "null").                   *)
(***************************************************************************)
NoDate == -1

StrLabel(name) == [kind |-> "string", name |-> name]
ObjLabel(name) == [kind |-> "object", name |-> name]
NumLabel(name) == [kind |-> "number", name |-> name]
NoNameLabel    == [kind |-> "noname", name |-> <<>>]
NullLabel      == [kind |-> "null", name |-> <<>>]

Issue(state, pr, hasLabels, labels, assignee, closed_at) ==
    [entry |-> "object", number |-> 0, state |-> state, pull_request |-> pr,
     hasLabels |-> hasLabels, labels |-> labels, assignee |-> assignee,
     closed_at |-> closed_at]

\* a null in the parsed list; it has no field to read
NullEntry ==
    [entry |-> "null", number |-> 0, state |-> "none", pull_request |-> FALSE,
     hasLabels |-> FALSE, labels |-> <<>>, assignee |-> "none", closed_at |-> NoDate]

lblBug      == <<"B","u","g">>
lblHotfix   == <<"h","o","t","F","i","x">>
lblFeature  == <<"f","e","a","t","u","r","e">>
lblDocs     == <<"D","o","c","s">>
lblHelp     == <<"H","e","l","p"," ","W","a","n","t","e","d">>
lblHelpDash == <<"h","e","l","p","-","w","a","n","t","e","d">>
lblBeginner == <<"b","e","g","i","n","n","e","r">>
lblQuestion == <<"q","u","e","s","t","i","o","n">>

IssuePool ==
    << Issue("open",   FALSE, TRUE,  <<>>, "none", NoDate),
       Issue("closed", FALSE, TRUE,  <<StrLabel(lblBug)>>, "none", 95),
       Issue("open",   FALSE, TRUE,  <<ObjLabel(lblHotfix), StrLabel(lblFeature)>>, "octocat", NoDate),
       Issue("open",   TRUE,  TRUE,  <<ObjLabel(lblBug)>>, "none", NoDate),
       Issue("closed", TRUE,  TRUE,  <<>>, "none", 99),
       Issue("open",   FALSE, TRUE,  <<ObjLabel(lblDocs), ObjLabel(lblHelp)>>, "none", NoDate),
       Issue("closed", FALSE, TRUE,  <<StrLabel(lblBeginner), ObjLabel(lblHelpDash)>>, "none", 60),
       Issue("open",   FALSE, TRUE,  <<ObjLabel(lblQuestion)>>, "none", NoDate),
       Issue("open",   FALSE, FALSE, <<>>, "none", NoDate),
       Issue("closed", FALSE, TRUE,  <<ObjLabel(lblQuestion)>>, "octocat", NoDate) >>

\* entries of unexpected shape: a null, a label whose name is a number, a
\* label object without a name, a null label
MalformedPool ==
    << NullEntry,
       Issue("open",   FALSE, TRUE, <<NumLabel(<<"7">>)>>, "none", NoDate),
       Issue("open",   FALSE, TRUE, <<NoNameLabel, ObjLabel(lblBug)>>, "none", NoDate),
       Issue("closed", FALSE, TRUE, <<NullLabel>>, "none", 99) >>

TrackerPool == IssuePool \o MalformedPool

\* issue numbers are unique within the repository: the k-th entry gets number k
Numbered(list) == [k \in 1..Len(list) |-> [list[k] EXCEPT !.number = k]]

RECURSIVE SeqsUpTo(_, _)
SeqsUpTo(S, n) ==
    IF n = 0 THEN { <<>> }
    ELSE LET shorter == SeqsUpTo(S, n - 1)
         IN  shorter \cup { Append(s, x) : s \in shorter, x \in S }

IssueLists == { Numbered(l) : l \in SeqsUpTo(Range(TrackerPool), MaxIssues) }

(***************************************************************************)
(* categorizeIssues                                                        *)
(***************************************************************************)
EmptyCategories ==
    [open |-> <<>>, closed |-> <<>>, bugs |-> <<>>, enhancements |-> <<>>,
     documentation |-> <<>>, help_wanted |-> <<>>, good_first_issue |-> <<>>]

\* (issue.labels || []).map(label => typeof label === 'string' ? ... : (label?.name || ''))
LabelNamesLower(issue) ==
    LET ls == IF issue.hasLabels THEN issue.labels ELSE <<>>
    IN  [i \in 1..Len(ls) |->
            IF ls[i].kind = "string" THEN toLowerCase(ls[i].name)
            ELSE IF ls[i].kind = "object" THEN toLowerCase(ls[i].name)
            ELSE <<>>]

\* the TypeError of the forEach callback: issue.pull_request read on null, or
\* toLowerCase called on a label name that is not text
Throws(issue) ==
    \/ issue.entry = "null"
    \/ /\ ~issue.pull_request
       /\ issue.hasLabels
       /\ \E i \in 1..Len(issue.labels) : issue.labels[i].kind = "number"

\* forEach stops at the first callback that throws, and categorizeIssues with it
CategorizeThrows(list) == \E i \in 1..Len(list) : Throws(list[i])

some(labels, ks) == \E i \in 1..Len(labels) : \E k \in ks : includes(labels[i], k)

PushIf(cond, bucket, issue) == IF cond THEN Append(bucket, issue) ELSE bucket

\* the body of the forEach callback, missing the pull_request test
CategorizeOneNoPrTest(cats, issue) ==
    LET labels == LabelNamesLower(issue)
    IN  [open   |-> PushIf(issue.state = "open", cats.open, issue),
         closed |-> PushIf(issue.state # "open", cats.closed, issue),
         bugs   |-> PushIf(some(labels, {kwBug, kwError, kwFix}), cats.bugs, issue),
         enhancements |-> PushIf(some(labels, {kwEnhancement, kwFeature, kwImprovement}),
                                 cats.enhancements, issue),
         documentation |-> PushIf(some(labels, {kwDocumentation, kwDocs}),
                                  cats.documentation, issue),
         help_wanted |-> PushIf(some(labels, {kwHelpWanted, kwHelpDashWanted}),
                                cats.help_wanted, issue),
         good_first_issue |-> PushIf(some(labels, {kwGoodFirstIssue, kwBeginner}),
                                     cats.good_first_issue, issue)]

\* the body of the forEach callback, comparing labels without lower-casing them
CategorizeOneCaseSensitive(cats, issue) ==
    LET ls == IF issue.hasLabels THEN issue.labels ELSE <<>>
        labels == [i \in 1..Len(ls) |->
                     IF ls[i].kind \in {"string", "object"} THEN ls[i].name ELSE <<>>]
    IN  IF issue.pull_request THEN cats
        ELSE [open   |-> PushIf(issue.state = "open", cats.open, issue),
              closed |-> PushIf(issue.state # "open", cats.closed, issue),
              bugs   |-> PushIf(some(labels, {kwBug, kwError, kwFix}), cats.bugs, issue),
              enhancements |-> PushIf(some(labels, {kwEnhancement, kwFeature, kwImprovement}),
                                      cats.enhancements, issue),
              documentation |-> PushIf(some(labels, {kwDocumentation, kwDocs}),
                                       cats.documentation, issue),
              help_wanted |-> PushIf(some(labels, {kwHelpWanted, kwHelpDashWanted}),
                                     cats.help_wanted, issue),
              good_first_issue |-> PushIf(some(labels, {kwGoodFirstIssue, kwBeginner}),
                                          cats.good_first_issue, issue)]

\* the body of the forEach callback of categorizeIssues
CategorizeOne(cats, issue) ==
    LET labels == LabelNamesLower(issue)
    IN  IF issue.pull_request THEN cats
        ELSE [open   |-> PushIf(issue.state = "open", cats.open, issue),
              closed |-> PushIf(issue.state # "open", cats.closed, issue),
              bugs   |-> PushIf(some(labels, {kwBug, kwError, kwFix}), cats.bugs, issue),
              enhancements |-> PushIf(some(labels, {kwEnhancement, kwFeature, kwImprovement}),
                                      cats.enhancements, issue),
              documentation |-> PushIf(some(labels, {kwDocumentation, kwDocs}),
                                       cats.documentation, issue),
              help_wanted |-> PushIf(some(labels, {kwHelpWanted, kwHelpDashWanted}),
                                     cats.help_wanted, issue),
              good_first_issue |-> PushIf(some(labels, {kwGoodFirstIssue, kwBeginner}),
                                          cats.good_first_issue, issue)]

\* two runs of pushes, one after the other
MergeCategories(a, b) ==
    [open |-> a.open \o b.open, closed |-> a.closed \o b.closed, bugs |-> a.bugs \o b.bugs,
     enhancements |-> a.enhancements \o b.enhancements,
     documentation |-> a.documentation \o b.documentation,
     help_wanted |-> a.help_wanted \o b.help_wanted,
     good_first_issue |-> a.good_first_issue \o b.good_first_issue]

\* issues.forEach over list[lo..hi], in order; the range is halved so that
\* the evaluation stays shallow on long lists
RECURSIVE CategorizeFrom(_, _, _)
CategorizeFrom(list, lo, hi) ==
    IF lo > hi THEN EmptyCategories
    ELSE IF lo = hi THEN CategorizeOne(EmptyCategories, list[lo])
    ELSE LET mid == (lo + hi) \div 2
         IN  MergeCategories(CategorizeFrom(list, lo, mid), CategorizeFrom(list, mid + 1, hi))

categorizeIssues(list) == CategorizeFrom(list, 1, Len(list))

(***************************************************************************)
(* formatIssueForReadme and generateIssuesSection.  The section is a       *)
(* sequence of lines; its text is every line followed by a newline.        *)
(***************************************************************************)
OpenCap       == 20
BugCap        == 10
EnhanceCap    == 10
HelpCap       == 5
ClosedCap     == 10
RecentDays    == 30

Min(a, b) == IF a < b THEN a ELSE b

\* Array.prototype.slice(0, n)
slice(list, n) == SubSeq(list, 1, Min(n, Len(list)))

\* labels.map(l => typeof l === 'string' ? l : (l?.name || 'unknown')).join(...)
RECURSIVE JoinLabels(_)
JoinLabels(ls) ==
    IF ls = <<>> THEN <<>>
    ELSE LET name == IF Head(ls).kind = "string" THEN Head(ls).name
                     ELSE IF Head(ls).kind \in {"object", "number"} /\ Head(ls).name # <<>>
                     THEN Head(ls).name
                     ELSE <<"unknown">>
         IN  IF Len(ls) = 1 THEN name
             ELSE name \o <<"BACKTICK", ",", " ", "BACKTICK">> \o JoinLabels(Tail(ls))

formatIssueForReadme(issue, includeState) ==
    LET state     == IF issue.state = "open" THEN "unlocked" ELSE "locked"
        stateText == IF includeState THEN <<" ", state>> ELSE <<>>
        labels    == IF issue.hasLabels THEN issue.labels ELSE <<>>
        labelText == IF Len(labels) > 0
                     THEN <<" ", "BACKTICK">> \o JoinLabels(labels) \o <<"BACKTICK">>
                     ELSE <<>>
        assignee  == IF issue.assignee # "none"
                     THEN <<" ", "-", " ", "Assigned to @", issue.assignee>>
                     ELSE <<>>
    IN  <<"-", " ", "[", "#", ToString(issue.number), "](html_url)">> \o stateText
            \o <<" ", "**", "title", "**">> \o labelText \o assignee

FormatAll(list, includeState) ==
    [i \in 1..Len(list) |-> formatIssueForReadme(list[i], includeState)]

Heading2(name) == <<"#", "#", " ", name>>
Heading3(name, count) == <<"#", "#", "#", " ", name, " ", "(", ToString(count), ")">>

MARKER == "Current Issues"

HeaderBlock(cats) ==
    << Heading2(MARKER),
       <<>>,
       <<">", " ", "**Repository:**", " ", "[owner/repo](https://github.com/owner/repo)", " ", " ">>,
       <<">", " ", "**Last Updated:**", " ", "timestamp", " ", " ">>,
       <<">", " ", "**Total Issues:**", " ", ToString(Len(cats.open) + Len(cats.closed)),
         " ", "(", ToString(Len(cats.open)), " ", "open,", " ", ToString(Len(cats.closed)),
         " ", "closed)">>,
       <<>> >>

MoreLine(n) == <<"...", " ", "and", " ", ToString(n), " ", "more open issues.", " ",
                 "[View all open issues](https://github.com/owner/repo/issues?q=is%3Aissue+is%3Aopen)">>

\* the open-issues subsection without the pointer line
OpenSubsectionNoPointer(cats) ==
    IF Len(cats.open) > 0
    THEN << Heading3("Open Issues", Len(cats.open)), <<>> >>
            \o FormatAll(slice(cats.open, OpenCap), FALSE)
            \o << <<>> >>
    ELSE <<>>

\* if (categories.open.length > 0) { ... }
OpenSubsection(cats) ==
    IF Len(cats.open) > 0
    THEN << Heading3("Open Issues", Len(cats.open)), <<>> >>
            \o FormatAll(slice(cats.open, OpenCap), FALSE)
            \o (IF Len(cats.open) > OpenCap
                THEN << <<>>, MoreLine(Len(cats.open) - OpenCap) >>
                ELSE <<>>)
            \o << <<>> >>
    ELSE <<>>

\* a label subsection listing the whole bucket, whatever slice it is handed
ListSubsectionWhole(name, bucket, listed) ==
    IF Len(bucket) > 0
    THEN << Heading3(name, Len(bucket)), <<>> >> \o FormatAll(bucket, TRUE) \o << <<>> >>
    ELSE <<>>

\* a label subsection: heading, blank line, the listed issues, blank line
ListSubsection(name, bucket, listed) ==
    IF Len(bucket) > 0
    THEN << Heading3(name, Len(bucket)), <<>> >> \o FormatAll(listed, TRUE) \o << <<>> >>
    ELSE <<>>

\* new Date(issue.closed_at): null is the epoch
closedDate(issue) == IF issue.closed_at = NoDate THEN 0 ELSE issue.closed_at

\* a filter callback that keeps every closed issue
isRecentAlways(issue, clock) == TRUE

\* the callback of categories.closed.filter
isRecent(issue, clock) == closedDate(issue) > clock - RecentDays

filterRecent(list, clock) ==
    LET recent(issue) == isRecent(issue, clock)
    IN  SelectSeq(list, recent)

recentlyClosed(cats, clock) == slice(filterRecent(cats.closed, clock), ClosedCap)

StatsRow(name, count) == <<"|", " ", name, " ", "|", " ", ToString(count), " ", "|">>

StatsBlock(cats) ==
    << <<"#", "#", "#", " ", "Issue Statistics">>,
       <<>>,
       <<"| Category | Count |">>,
       <<"|----------|-------|">>,
       StatsRow("Total Issues", Len(cats.open) + Len(cats.closed)),
       StatsRow("Open Issues", Len(cats.open)),
       StatsRow("Closed Issues", Len(cats.closed)),
       StatsRow("Bug Reports", Len(cats.bugs)),
       StatsRow("Feature Requests", Len(cats.enhancements)),
       StatsRow("Documentation", Len(cats.documentation)),
       StatsRow("Help Wanted", Len(cats.help_wanted)),
       StatsRow("Good First Issues", Len(cats.good_first_issue)),
       <<>>,
       <<"---">>,
       <<>>,
       <<"*This section is automatically updated by GitHub Actions. Last update: ", "isotime", "*">>,
       <<>> >>

generateIssuesSection(cats, clock) ==
    HeaderBlock(cats)
        \o OpenSubsection(cats)
        \o ListSubsection("Bug Reports", cats.bugs, slice(cats.bugs, BugCap))
        \o ListSubsection("Feature Requests & Enhancements", cats.enhancements,
                          slice(cats.enhancements, EnhanceCap))
        \o ListSubsection("Help Wanted", cats.help_wanted, slice(cats.help_wanted, HelpCap))
        \o ListSubsection("Good First Issues", cats.good_first_issue, cats.good_first_issue)
        \o (LET rc == recentlyClosed(cats, clock)
            IN  ListSubsection("Recently Closed Issues", rc, rc))
        \o StatsBlock(cats)

(***************************************************************************)
(* updateReadme.  README.md is [exists, text]; text is a token sequence    *)
(* in which "NL" is the newline.                                           *)
(***************************************************************************)
NL == "NL"

\* the lines lo..hi, each followed by a newline
RECURSIVE LinesText(_, _, _)
LinesText(lines, lo, hi) ==
    IF lo > hi THEN <<>>
    ELSE IF lo = hi THEN lines[lo] \o <<NL>>
    ELSE LET mid == (lo + hi) \div 2
         IN  LinesText(lines, lo, mid) \o LinesText(lines, mid + 1, hi)

SectionText(lines) == LinesText(lines, 1, Len(lines))

\* the text updateReadme starts from when README.md cannot be read
Placeholder == <<"#", " ", "Project Title", NL, NL, "Welcome to this project!", NL, NL>>

\* the literal the regex starts with: '## 📋 Current Issues'
MarkerText == <<"#", "#", " ", MARKER>>

MinOf(S) == CHOOSE x \in S : \A y \in S : x <= y
MaxOf(S) == CHOOSE x \in S : \A y \in S : x >= y

MarkerStarts(text) ==
    { i \in 1..Len(text) : i + 3 <= Len(text) /\ SubSeq(text, i, i + 3) = MarkerText }

\* [\s\S]*? with a greedy quantifier: the match runs to the end of the text
MatchEndGreedy(text, start) == Len(text) + 1

\* [\s\S]*?(?=##|$): the first position after the marker at which '##' or the
\* end of the text follows
MatchEnd(text, start) ==
    MinOf({ j \in (start + 4)..(Len(text) + 1) :
              \/ j = Len(text) + 1
              \/ (j + 1 <= Len(text) /\ text[j] = "#" /\ text[j + 1] = "#") })

\* readmeContent.replace(issuesSectionRegex, ''): the first match only
removeIssuesSection(text) ==
    IF MarkerStarts(text) = {} THEN text
    ELSE LET start == MinOf(MarkerStarts(text))
             stop  == MatchEnd(text, start)
         IN  SubSeq(text, 1, start - 1) \o SubSeq(text, stop, Len(text))

IsWhitespace(t) == t \in {" ", NL}

\* String.prototype.trim
trim(text) ==
    LET solid == { i \in 1..Len(text) : ~IsWhitespace(text[i]) }
    IN  IF solid = {} THEN <<>> ELSE SubSeq(text, MinOf(solid), MaxOf(solid))

\* the text updateReadme writes to README.md
updateReadme(file, issuesSection) ==
    LET readmeContent == IF file.exists THEN file.text ELSE Placeholder
    IN  trim(removeIssuesSection(readmeContent)) \o <<NL, NL>> \o SectionText(issuesSection)

(***************************************************************************)
(* Values of the variables a specification does not use.                   *)
(***************************************************************************)
NoExit == -1

NoEnv == [GITHUB_TOKEN |-> "unset", REPO_OWNER |-> "unset", REPO_NAME |-> "unset",
          GITHUB_REPOSITORY |-> "unset", OPENAI_API_KEY |-> "unset", PR_NUMBER |-> "unset"]

IdleData == /\ issues = <<>>
            /\ categories = EmptyCategories
            /\ section = <<>>
            /\ now = 0
            /\ stage = "idle"

IdleDoc == /\ readme = [exists |-> FALSE, text |-> <<>>]
           /\ unrelated = [before |-> <<>>, after |-> <<>>, generated |-> <<>>,
                           original |-> [exists |-> FALSE, text |-> <<>>]]
           /\ tracker = <<>>
           /\ runs = 0

IdleProc == /\ pc = "idle"
            /\ script = "none"
            /\ env = NoEnv
            /\ mcpClient = "null"
            /\ page = 0
            /\ allIssues = <<>>
            /\ prInfo = "null"
            /\ ops = <<>>
            /\ exitCode = NoExit
            /\ summary = FALSE
            /\ pending = <<>>

(***************************************************************************)
(* SpecCat: categorizeIssues applied to every issue list of the bounds.    *)
(***************************************************************************)
InitCat == /\ issues \in IssueLists
           /\ categories = EmptyCategories
           /\ section = <<>>
           /\ now = 0
           /\ stage = "input"
           /\ IdleDoc
           /\ IdleProc

Categorize == /\ stage = "input"
              /\ IF CategorizeThrows(issues)
                 THEN /\ stage' = "threw"
                      /\ UNCHANGED categories
                 ELSE /\ categories' = categorizeIssues(issues)
                      /\ stage' = "categorized"
              /\ UNCHANGED <<issues, section, now>>
              /\ UNCHANGED docVars
              /\ UNCHANGED procVars

NextCat == Categorize

SpecCat == InitCat /\ [][NextCat]_vars

BucketNames == {"open", "closed", "bugs", "enhancements", "documentation",
                "help_wanted", "good_first_issue"}

LabelBuckets == {"bugs", "enhancements", "documentation", "help_wanted",
                 "good_first_issue"}

Inputs == Range(issues)

NonPullRequests == { x \in Inputs : ~x.pull_request }

\* C1: after categorizeIssues the open and closed buckets are disjoint, their
\* union is exactly the input issues without a pull-request marker (each such
\* issue exactly once), and no bucket holds an issue with the marker.
C1_StatePartition ==
    stage = "categorized" =>
        /\ Range(categories.open) \cap Range(categories.closed) = {}
        /\ Range(categories.open) \cup Range(categories.closed) = NonPullRequests
        /\ Len(categories.open) + Len(categories.closed) = Cardinality(NonPullRequests)
        /\ \A b \in BucketNames : \A x \in Range(categories[b]) : ~x.pull_request

C1_Witness ==
    /\ stage = "categorized"
    /\ \E x \in Inputs : x.pull_request /\ x.labels # <<>>
    /\ categories.open # <<>>
    /\ categories.closed # <<>>

\* the keyword sets of the five label buckets, as the specification lists them
BucketKeywords(b) ==
    CASE b = "bugs"             -> {kwBug, kwError, kwFix}
      [] b = "enhancements"     -> {kwEnhancement, kwFeature, kwImprovement}
      [] b = "documentation"    -> {kwDocumentation, kwDocs}
      [] b = "help_wanted"      -> {kwHelpWanted, kwHelpDashWanted}
      [] b = "good_first_issue" -> {kwGoodFirstIssue, kwBeginner}

\* the display names of an issue's labels, lower-cased
LabelTexts(x) ==
    IF x.hasLabels
    THEN { toLowerCase(x.labels[i].name) :
             i \in { j \in 1..Len(x.labels) : x.labels[j].kind \in {"string", "object"} } }
    ELSE {}

MatchesBucket(x, b) ==
    \E t \in LabelTexts(x) : \E k \in BucketKeywords(b) : includes(t, k)

\* C2: a non-pull-request issue is in a label bucket exactly when one of its
\* labels, lower-cased, contains one of the bucket's keywords; nothing else
\* (state, assignee) decides it, and an issue without labels is in none.
C2_LabelMembership ==
    stage = "categorized" =>
        \A x \in NonPullRequests : \A b \in LabelBuckets :
            /\ (x \in Range(categories[b])) <=> MatchesBucket(x, b)
            /\ (LabelTexts(x) = {}) => x \notin Range(categories[b])

C2_Witness ==
    /\ stage = "categorized"
    /\ \E x \in NonPullRequests :
          /\ x \in Range(categories.bugs)
          /\ x \in Range(categories.enhancements)
    /\ \E x \in NonPullRequests : x.labels # <<>> /\ \A b \in LabelBuckets : x \notin Range(categories[b])
    /\ \E x \in NonPullRequests : x.state = "closed" /\ x \in Range(categories.good_first_issue)

(***************************************************************************)
(* SpecRender: categorizeIssues, then generateIssuesSection, on lists long *)
(* enough to pass every cap of the renderer.                               *)
(***************************************************************************)
PatternList(n, k, stride) ==
    Numbered([i \in 1..n |-> TrackerPool[((k - 1 + stride * (i - 1)) % Len(TrackerPool)) + 1]])

\* lists mixing open and closed issues, recent, old and undated closings
MixedLists ==
    { Numbered(<<IssuePool[2], IssuePool[10], IssuePool[7], IssuePool[5], IssuePool[2],
                 IssuePool[1]>>),
      Numbered(<<IssuePool[3], IssuePool[2], MalformedPool[3], IssuePool[6], MalformedPool[4]>>) }

RenderLists ==
    { PatternList(n, k, stride) : n \in 0..MaxRender, k \in 1..Len(TrackerPool), stride \in {0, 1} }
        \cup MixedLists

NowChoices == {100, 125}

InitRender == /\ issues \in RenderLists
              /\ categories = EmptyCategories
              /\ section = <<>>
              /\ now \in NowChoices
              /\ stage = "input"
              /\ IdleDoc
              /\ IdleProc

Render == /\ stage = "categorized"
          /\ section' = generateIssuesSection(categories, now)
          /\ stage' = "rendered"
          /\ UNCHANGED <<issues, categories, now>>
          /\ UNCHANGED docVars
          /\ UNCHANGED procVars

NextRender == Categorize \/ Render

SpecRender == InitRender /\ [][NextRender]_vars

\* reading the rendered lines back
IsHeadingLine(line) == line # <<>> /\ line[1] = "#"
IsIssueLine(line)   == line # <<>> /\ line[1] = "-"
IsPointerLine(line) == line # <<>> /\ line[1] = "..."

HeadingIndexes(lines, name) ==
    { i \in 1..Len(lines) : Len(lines[i]) >= 5 /\ SubSeq(lines[i], 1, 5) = <<"#", "#", "#", " ", name>> }

\* the lines after heading i, up to the next heading line
SubsectionAfter(lines, i) ==
    LET later == { j \in (i + 1)..Len(lines) : IsHeadingLine(lines[j]) }
        stop  == IF later = {} THEN Len(lines) + 1
                 ELSE CHOOSE j \in later : \A m \in later : j <= m
    IN  SubSeq(lines, i + 1, stop - 1)

\* C5: the open-issues subsection lists the first min(n, 20) issues of the
\* open bucket in bucket order, has one "n-20 more" pointer line exactly when
\* n > 20, and is left out when n = 0.
C5_OpenTruncation ==
    stage = "rendered" =>
        LET n     == Len(categories.open)
            heads == HeadingIndexes(section, "Open Issues")
        IN  IF n = 0 THEN heads = {}
            ELSE /\ Cardinality(heads) = 1
                 /\ LET sub      == SubsectionAfter(section, CHOOSE i \in heads : TRUE)
                        listed   == SelectSeq(sub, IsIssueLine)
                        pointers == SelectSeq(sub, IsPointerLine)
                        shown    == IF n < 20 THEN n ELSE 20
                    IN  /\ Len(listed) = shown
                        /\ \A k \in 1..shown :
                              listed[k][5] = ToString(categories.open[k].number)
                        /\ Len(pointers) = (IF n > 20 THEN 1 ELSE 0)
                        /\ n > 20 => pointers[1][5] = ToString(n - 20)

C5_Witness ==
    /\ stage = "rendered"
    /\ Len(categories.open) = 25
    /\ \E i \in 1..Len(section) : IsPointerLine(section[i]) /\ section[i][5] = "5"

(***************************************************************************)
(* SpecReadme: updateReadme run repeatedly on hand-written documents with  *)
(* and without a section generated by an earlier run.                      *)
(***************************************************************************)
Befores ==
    { <<>>,
      <<"#", " ", "Title", NL, NL, "Intro", NL, NL>>,
      <<NL, "#", " ", "Title", NL, NL>>,
      <<"#", " ", "Title", NL, "#", "#", " ", "Install", NL, "npm install", NL, NL>> }

Afters ==
    { <<>>,
      <<"#", "#", " ", "License", NL, "MIT", NL>>,
      <<"#", " ", "Appendix", NL, "text", NL, " ", NL>> }

ReadmeLists ==
    { Numbered(<<IssuePool[1]>>),
      Numbered(<<IssuePool[2], IssuePool[3]>>),
      Numbered(<<IssuePool[4], IssuePool[7]>>) }

SectionOf(list, clock) == generateIssuesSection(categorizeIssues(list), clock)

EarlierSections == { <<>> } \cup { SectionText(SectionOf(l, 100)) : l \in ReadmeLists }

InitReadme ==
    /\ IdleData
    /\ IdleProc
    /\ runs = 0
    /\ tracker = <<>>
    /\ \/ /\ readme = [exists |-> FALSE, text |-> <<>>]
          /\ unrelated = [before |-> <<>>, after |-> <<>>, generated |-> <<>>,
                          original |-> readme]
       \/ \E b \in Befores, g \in EarlierSections, a \in Afters :
              /\ readme = [exists |-> TRUE, text |-> b \o g \o a]
              /\ unrelated = [before |-> b, after |-> a, generated |-> g, original |-> readme]

UpdateReadme ==
    /\ runs < MaxRuns
    /\ \E l \in ReadmeLists : section' = SectionOf(l, 125)
    /\ readme' = [exists |-> TRUE, text |-> updateReadme(readme, section')]
    /\ runs' = runs + 1
    /\ UNCHANGED <<issues, categories, now, stage, unrelated, tracker>>
    /\ UNCHANGED procVars

NextReadme == UpdateReadme

SpecReadme == InitReadme /\ [][NextReadme]_vars

IsPrefix(p, t) == Len(p) <= Len(t) /\ SubSeq(t, 1, Len(p)) = p
IsSuffix(p, t) == Len(p) <= Len(t) /\ SubSeq(t, Len(t) - Len(p) + 1, Len(t)) = p

TrimEnd(text) ==
    LET solid == { i \in 1..Len(text) : ~IsWhitespace(text[i]) }
    IN  IF solid = {} THEN <<>> ELSE SubSeq(text, 1, MaxOf(solid))

TrimStart(text) ==
    LET solid == { i \in 1..Len(text) : ~IsWhitespace(text[i]) }
    IN  IF solid = {} THEN <<>> ELSE SubSeq(text, MinOf(solid), Len(text))

\* text t holds p as one piece, starting at or after position from
OccursFrom(p, t, from) ==
    \E i \in from..(Len(t) - Len(p) + 1) : SubSeq(t, i, i + Len(p) - 1) = p

\* the document before the fragment appended by the last update
BodyBeforeFragment ==
    SubSeq(readme.text, 1, Len(readme.text) - Len(SectionText(section)) - 2)

HadSection == readme.exists /\ unrelated.generated # <<>>

\* C3 as stated: after an update of a document that held unrelated content
\* and one generated section, the unrelated content before the section is
\* there verbatim up to trailing whitespace, the unrelated content after it
\* too, and the new fragment follows.
C3_AsStated ==
    (runs > 0 /\ HadSection) =>
        /\ IsSuffix(<<NL, NL>> \o SectionText(section), readme.text)
        /\ IsPrefix(TrimEnd(unrelated.before), BodyBeforeFragment)
        /\ OccursFrom(TrimEnd(unrelated.after), BodyBeforeFragment,
                      Len(TrimEnd(unrelated.before)) + 1)

\* C3, amended: the same, with the unrelated content kept verbatim up to
\* leading and trailing whitespace of the document.
C3_MarkerScoped ==
    (runs > 0 /\ HadSection) =>
        /\ IsSuffix(<<NL, NL>> \o SectionText(section), readme.text)
        /\ IsPrefix(TrimEnd(TrimStart(unrelated.before)), BodyBeforeFragment)
        /\ OccursFrom(TrimEnd(unrelated.after), BodyBeforeFragment,
                      Len(TrimEnd(TrimStart(unrelated.before))) + 1)

C3_Witness ==
    /\ runs > 0
    /\ HadSection
    /\ unrelated.before # <<>>
    /\ unrelated.before[1] # NL
    /\ Len(unrelated.after) > 0
    /\ unrelated.after[2] = "#"

CountToken(text, t) == Cardinality({ i \in 1..Len(text) : text[i] = t })

\* C4: the document holds at most one generated section: one statistics
\* table and one footer, however many times updateReadme has run.
C4_AtMostOneSection ==
    /\ CountToken(readme.text, "Issue Statistics") <= 1
    /\ CountToken(readme.text, "isotime") <= 1

(***************************************************************************)
(* SpecRun: one run of one of the three scripts.  An action is the code    *)
(* that runs between two awaits: it starts when the awaited operation      *)
(* resolves and ends by issuing the next one or by ending the process.     *)
(* ops records the operations issued and how each resolved.                *)
(***************************************************************************)
perPage == 100

Event(op, ev, arg) == [op |-> op, ev |-> ev, arg |-> arg]

\* a JavaScript truthiness test of an environment variable
Truthy(v) == v \notin {"unset", "empty"}

\* process.env.GITHUB_REPOSITORY?.split('/')[0] and [1]
SplitOwner(v) == IF v = "unset" THEN "unset" ELSE IF v = "empty" THEN "empty" ELSE "owner"
SplitName(v)  == IF v = "owner/repo" THEN "repo" ELSE "unset"

repoOwner(e) == IF Truthy(e.REPO_OWNER) THEN e.REPO_OWNER ELSE SplitOwner(e.GITHUB_REPOSITORY)
repoName(e)  == IF Truthy(e.REPO_NAME) THEN e.REPO_NAME ELSE SplitName(e.GITHUB_REPOSITORY)

\* a process that ends with code 0 whatever code it is handed
ExitAlwaysZero(code) == /\ pc' = "exited"
                        /\ exitCode' = 0

\* process.exit(code), or the end of the script with the event loop empty
Exit(code) == /\ pc' = "exited"
              /\ exitCode' = code

\* the issues the tracker holds on page p when that page has k entries
PageItems(p, k) ==
    [i \in 1..k |->
        [tracker[(((p - 1) * perPage + i - 1) % Len(tracker)) + 1]
            EXCEPT !.number = (p - 1) * perPage + i]]

\* what a list_issues call can resolve to
PageResponses(p) ==
    { [kind |-> "text", items |-> PageItems(p, k)] : k \in 0..perPage }
        \cup { [kind |-> "notext", items |-> <<>>] }

\* one turn of the while loop that drops the last, short page
FetchStepDropShort(acc, p, resp) ==
    IF resp.kind = "text"
    THEN IF Len(resp.items) < perPage
         THEN [allIssues |-> acc, page |-> p, done |-> TRUE]
         ELSE [allIssues |-> acc \o resp.items, page |-> p + 1, done |-> FALSE]
    ELSE [allIssues |-> acc, page |-> p, done |-> TRUE]

\* one turn of the while loop of fetchAllIssues, after callTool resolved
FetchStep(acc, p, resp) ==
    IF resp.kind = "text"
    THEN IF Len(resp.items) = 0
         THEN [allIssues |-> acc, page |-> p, done |-> TRUE]
         ELSE IF Len(resp.items) < perPage
              THEN [allIssues |-> acc \o resp.items, page |-> p, done |-> TRUE]
              ELSE [allIssues |-> acc \o resp.items, page |-> p + 1, done |-> FALSE]
    ELSE [allIssues |-> acc, page |-> p, done |-> TRUE]

\* main without the test of issues.length
ReturnsEarlyNever(list) == FALSE

\* if (issues.length === 0) return
ReturnsEarly(list) == Len(list) = 0

AwaitingReadme == {"awaitConnect", "awaitPage", "awaitRead", "awaitWrite", "awaitClose"}

\* main up to the first await: the environment is validated, then the
\* client is created and its connection started
RM_Start ==
    /\ script = "readme"
    /\ pc = "start"
    /\ IF ~Truthy(env.GITHUB_TOKEN) \/ ~Truthy(repoOwner(env)) \/ ~Truthy(repoName(env))
       THEN /\ Exit(1)
            /\ UNCHANGED <<mcpClient, ops>>
       ELSE /\ mcpClient' = "connecting"
            /\ ops' = Append(ops, Event("connect", "request", 0))
            /\ pc' = "awaitConnect"
            /\ UNCHANGED exitCode
    /\ UNCHANGED <<script, env, page, allIssues, prInfo, summary, pending>>
    /\ UNCHANGED dataVars
    /\ UNCHANGED docVars

\* client.connect resolved: fetchAllIssues starts and requests page 1
RM_ConnectResolved ==
    /\ script = "readme"
    /\ pc = "awaitConnect"
    /\ \/ /\ mcpClient' = "connected"
          /\ page' = 1
          /\ allIssues' = <<>>
          /\ ops' = ops \o <<Event("connect", "ok", 0), Event("list_issues", "request", 1)>>
          /\ pc' = "awaitPage"
          /\ UNCHANGED exitCode
       \/ /\ ops' = Append(ops, Event("connect", "fail", 0))
          /\ Exit(1)
          /\ UNCHANGED <<mcpClient, page, allIssues>>
    /\ UNCHANGED <<script, env, prInfo, summary, pending>>
    /\ UNCHANGED dataVars
    /\ UNCHANGED docVars

\* the rest of main with README.md read before the issues are categorised
AfterFetchReadFirst(list, log) ==
    /\ issues' = list
    /\ categories' = categorizeIssues(list)
    /\ section' = generateIssuesSection(categories', now)
    /\ ops' = log \o <<Event("fetched", "ok", Len(list)), Event("readFile", "request", 0),
                        Event("categorize", "ok", 0), Event("render", "ok", 0)>>
    /\ pc' = "awaitRead"
    /\ UNCHANGED exitCode

\* the rest of main once fetchAllIssues has returned list: the early return
\* into finally, or categorizeIssues, generateIssuesSection and the
\* readFile of updateReadme
AfterFetch(list, log) ==
    /\ issues' = list
    /\ IF ReturnsEarly(list)
       THEN /\ ops' = log \o <<Event("fetched", "ok", Len(list)), Event("close", "request", 0)>>
            /\ pc' = "awaitClose"
            /\ UNCHANGED <<categories, section, exitCode>>
       ELSE IF CategorizeThrows(list)
       THEN /\ ops' = log \o <<Event("fetched", "ok", Len(list)), Event("categorize", "fail", 0)>>
            /\ Exit(1)
            /\ UNCHANGED <<categories, section>>
       ELSE /\ UNCHANGED exitCode
            /\ categories' = categorizeIssues(list)
            /\ section' = generateIssuesSection(categories', now)
            /\ ops' = log \o <<Event("fetched", "ok", Len(list)), Event("categorize", "ok", 0),
                               Event("render", "ok", 0), Event("readFile", "request", 0)>>
            /\ pc' = "awaitRead"

\* callTool('list_issues') threw and fetchAllIssues kept what it had
RM_PageFailedPartial ==
    /\ script = "readme"
    /\ pc = "awaitPage"
    /\ AfterFetch(allIssues, Append(ops, Event("list_issues", "fail", page)))
    /\ UNCHANGED <<script, env, mcpClient, page, allIssues, prInfo, summary, pending,
                   now, stage>>
    /\ UNCHANGED docVars

\* callTool('list_issues') logged and rethrew, or JSON.parse threw: nothing
\* catches before main's catch, which exits
RM_PageFailed ==
    /\ script = "readme"
    /\ pc = "awaitPage"
    /\ \E kind \in {"fail", "unparsable"} :
          ops' = Append(ops, Event("list_issues", kind, page))
    /\ Exit(1)
    /\ UNCHANGED <<script, env, mcpClient, page, allIssues, prInfo, summary, pending>>
    /\ UNCHANGED dataVars
    /\ UNCHANGED docVars

\* callTool('list_issues') resolved: one turn of the loop, then the next
\* request or the rest of main
RM_PageResolved ==
    /\ script = "readme"
    /\ pc = "awaitPage"
    /\ \E resp \in PageResponses(page) :
          LET step == FetchStep(allIssues, page, resp)
              log  == Append(ops, Event("list_issues", resp.kind, Len(resp.items)))
          IN  /\ step.done \/ page < MaxPages
              /\ allIssues' = step.allIssues
              /\ page' = step.page
              /\ IF step.done
                 THEN AfterFetch(step.allIssues, log)
                 ELSE /\ ops' = Append(log, Event("list_issues", "request", step.page))
                      /\ pc' = "awaitPage"
                      /\ UNCHANGED <<issues, categories, section, exitCode>>
    /\ UNCHANGED <<script, env, mcpClient, prInfo, summary, pending, now, stage>>
    /\ UNCHANGED docVars

\* fs.readFile resolved or threw: the new text is computed and written
RM_ReadResolved ==
    /\ script = "readme"
    /\ pc = "awaitRead"
    /\ pending' = updateReadme(readme, section)
    /\ ops' = ops \o <<Event("readFile", IF readme.exists THEN "ok" ELSE "fail", 0),
                       Event("writeFile", "request", 0)>>
    /\ pc' = "awaitWrite"
    /\ UNCHANGED <<script, env, mcpClient, page, allIssues, prInfo, exitCode, summary>>
    /\ UNCHANGED dataVars
    /\ UNCHANGED docVars

\* fs.writeFile resolved (main goes on into finally) or threw
RM_WriteResolved ==
    /\ script = "readme"
    /\ pc = "awaitWrite"
    /\ \/ /\ readme' = [exists |-> TRUE, text |-> pending]
          /\ runs' = runs + 1
          /\ ops' = ops \o <<Event("writeFile", "ok", 0), Event("close", "request", 0)>>
          /\ pc' = "awaitClose"
          /\ UNCHANGED exitCode
       \/ /\ ops' = Append(ops, Event("writeFile", "fail", 0))
          /\ Exit(1)
          /\ UNCHANGED <<readme, runs>>
    /\ UNCHANGED <<script, env, mcpClient, page, allIssues, prInfo, summary, pending, unrelated,
                   tracker>>
    /\ UNCHANGED dataVars

\* client.close resolved, and the script ends, or threw out of finally
RM_CloseResolved ==
    /\ script = "readme"
    /\ pc = "awaitClose"
    /\ \/ /\ mcpClient' = "closed"
          /\ ops' = Append(ops, Event("close", "ok", 0))
          /\ Exit(0)
       \/ /\ ops' = Append(ops, Event("close", "fail", 0))
          /\ Exit(1)
          /\ UNCHANGED mcpClient
    /\ UNCHANGED <<script, env, page, allIssues, prInfo, summary, pending>>
    /\ UNCHANGED dataVars
    /\ UNCHANGED docVars

\* the SIGINT and SIGTERM handlers
RM_Signal ==
    /\ script = "readme"
    /\ pc \in AwaitingReadme
    /\ ops' = Append(ops, Event("signal", "ok", 0))
    /\ Exit(0)
    /\ UNCHANGED <<script, env, mcpClient, page, allIssues, prInfo, summary, pending>>
    /\ UNCHANGED dataVars
    /\ UNCHANGED docVars

(***************************************************************************)
(* runAnalysis of openai-mcp-analysis.js (OA) and of mcp-analysis.js (MA)  *)
(***************************************************************************)
ChangedFileCounts == {0, 1, 3}

ReadFiles(n) == [i \in 1..n |-> Event("readFile", "ok", i)]

\* runAnalysis up to its first await: the two checks of the environment,
\* then pulls.get when PR_NUMBER is set and git diff otherwise
OA_Start ==
    /\ script = "openai"
    /\ pc = "start"
    /\ IF ~Truthy(env.OPENAI_API_KEY) \/ ~Truthy(env.GITHUB_REPOSITORY)
       THEN /\ Exit(1)
            /\ UNCHANGED ops
       ELSE /\ UNCHANGED exitCode
            /\ IF Truthy(env.PR_NUMBER)
               THEN /\ ops' = Append(ops, Event("pulls.get", "request", 0))
                    /\ pc' = "awaitPr"
               ELSE /\ ops' = Append(ops, Event("git diff", "request", 0))
                    /\ pc' = "awaitDiff"
    /\ UNCHANGED <<script, env, mcpClient, page, allIssues, prInfo, summary, pending>>
    /\ UNCHANGED dataVars
    /\ UNCHANGED docVars

\* pulls.get resolved or threw inside its own try: git diff is run either way
OA_PrResolved ==
    /\ script = "openai"
    /\ pc = "awaitPr"
    /\ \E ev \in {"ok", "fail"} :
          /\ prInfo' = IF ev = "ok" THEN "data" ELSE "null"
          /\ ops' = ops \o <<Event("pulls.get", ev, 0), Event("git diff", "request", 0)>>
    /\ pc' = "awaitDiff"
    /\ UNCHANGED <<script, env, mcpClient, page, allIssues, exitCode, summary, pending>>
    /\ UNCHANGED dataVars
    /\ UNCHANGED docVars

\* git diff resolved with n changed files, or threw
OA_DiffResolved ==
    /\ script = "openai"
    /\ pc = "awaitDiff"
    /\ \/ /\ ops' = Append(ops, Event("git diff", "fail", 0))
          /\ Exit(1)
       \/ \E n \in ChangedFileCounts :
            IF n = 0
            THEN /\ ops' = Append(ops, Event("git diff", "ok", n))
                 /\ Exit(0)
            ELSE /\ ops' = Append(ops, Event("git diff", "ok", n))
                             \o ReadFiles(Min(n, 2))
                             \o <<Event("completion", "request", 1)>>
                 /\ pc' = "awaitTest"
                 /\ UNCHANGED exitCode
    /\ UNCHANGED <<script, env, mcpClient, page, allIssues, prInfo, summary, pending>>
    /\ UNCHANGED dataVars
    /\ UNCHANGED docVars

\* the test completion resolved, or threw and was rethrown
OA_TestResolved ==
    /\ script = "openai"
    /\ pc = "awaitTest"
    /\ \/ /\ ops' = ops \o <<Event("completion", "ok", 1), Event("completion", "request", 2)>>
          /\ pc' = "awaitCompletion"
          /\ UNCHANGED exitCode
       \/ /\ ops' = Append(ops, Event("completion", "fail", 1))
          /\ Exit(1)
    /\ UNCHANGED <<script, env, mcpClient, page, allIssues, prInfo, summary, pending>>
    /\ UNCHANGED dataVars
    /\ UNCHANGED docVars

\* the analysis completion resolved with text, without text, or threw
OA_CompletionResolved ==
    /\ script = "openai"
    /\ pc = "awaitCompletion"
    /\ \/ \E ev \in {"fail", "empty"} :
            /\ ops' = Append(ops, Event("completion", ev, 2))
            /\ Exit(1)
       \/ /\ UNCHANGED exitCode
          /\ IF Truthy(env.PR_NUMBER) /\ prInfo # "null"
             THEN /\ ops' = ops \o <<Event("completion", "ok", 2),
                                     Event("createComment", "request", 0)>>
                  /\ pc' = "awaitComment"
             ELSE /\ ops' = ops \o <<Event("completion", "ok", 2),
                                     Event("writeFile", "request", 0)>>
                  /\ pc' = "awaitSummary"
    /\ UNCHANGED <<script, env, mcpClient, page, allIssues, prInfo, summary, pending>>
    /\ UNCHANGED dataVars
    /\ UNCHANGED docVars

\* createComment resolved or threw inside its own try: the summary is
\* written either way
OA_CommentResolved ==
    /\ script = "openai"
    /\ pc = "awaitComment"
    /\ \E ev \in {"ok", "fail"} :
          ops' = ops \o <<Event("createComment", ev, 0), Event("writeFile", "request", 0)>>
    /\ pc' = "awaitSummary"
    /\ UNCHANGED <<script, env, mcpClient, page, allIssues, prInfo, exitCode, summary, pending>>
    /\ UNCHANGED dataVars
    /\ UNCHANGED docVars

\* fs.writeFile of ai-analysis-summary.md resolved, and the script ends, or threw
OA_SummaryResolved ==
    /\ script = "openai"
    /\ pc = "awaitSummary"
    /\ \/ /\ summary' = TRUE
          /\ ops' = Append(ops, Event("writeFile", "ok", 0))
          /\ Exit(0)
       \/ /\ ops' = Append(ops, Event("writeFile", "fail", 0))
          /\ Exit(1)
          /\ UNCHANGED summary
    /\ UNCHANGED <<script, env, mcpClient, page, allIssues, prInfo, pending>>
    /\ UNCHANGED dataVars
    /\ UNCHANGED docVars

\* runAnalysis up to its first await.  new OpenAI({apiKey}) is library code:
\* handed no key it either throws or builds a client.  split is called on
\* GITHUB_REPOSITORY as it is, and throws when the variable is not set.
MA_Start ==
    /\ script = "mcp"
    /\ pc = "start"
    /\ \/ /\ ~Truthy(env.OPENAI_API_KEY) \/ env.GITHUB_REPOSITORY = "unset"
          /\ Exit(1)
          /\ UNCHANGED ops
       \/ /\ env.GITHUB_REPOSITORY # "unset"
          /\ UNCHANGED exitCode
          /\ IF Truthy(env.PR_NUMBER)
             THEN /\ ops' = Append(ops, Event("pulls.get", "request", 0))
                  /\ pc' = "awaitPr"
             ELSE /\ ops' = Append(ops, Event("git diff", "request", 0))
                  /\ pc' = "awaitDiff"
    /\ UNCHANGED <<script, env, mcpClient, page, allIssues, prInfo, summary, pending>>
    /\ UNCHANGED dataVars
    /\ UNCHANGED docVars

\* pulls.get resolved, or threw into runAnalysis' catch
MA_PrResolved ==
    /\ script = "mcp"
    /\ pc = "awaitPr"
    /\ \/ /\ prInfo' = "data"
          /\ ops' = ops \o <<Event("pulls.get", "ok", 0), Event("git diff", "request", 0)>>
          /\ pc' = "awaitDiff"
          /\ UNCHANGED exitCode
       \/ /\ ops' = Append(ops, Event("pulls.get", "fail", 0))
          /\ Exit(1)
          /\ UNCHANGED prInfo
    /\ UNCHANGED <<script, env, mcpClient, page, allIssues, summary, pending>>
    /\ UNCHANGED dataVars
    /\ UNCHANGED docVars

\* git diff resolved with n changed files, or threw
MA_DiffResolved ==
    /\ script = "mcp"
    /\ pc = "awaitDiff"
    /\ \/ /\ ops' = Append(ops, Event("git diff", "fail", 0))
          /\ Exit(1)
       \/ \E n \in ChangedFileCounts :
            /\ ops' = Append(ops, Event("git diff", "ok", n))
                        \o ReadFiles(Min(n, 5))
                        \o <<Event("completion", "request", 1)>>
            /\ pc' = "awaitCompletion"
            /\ UNCHANGED exitCode
    /\ UNCHANGED <<script, env, mcpClient, page, allIssues, prInfo, summary, pending>>
    /\ UNCHANGED dataVars
    /\ UNCHANGED docVars

\* the completion resolved, or threw
MA_CompletionResolved ==
    /\ script = "mcp"
    /\ pc = "awaitCompletion"
    /\ \/ /\ ops' = Append(ops, Event("completion", "fail", 1))
          /\ Exit(1)
       \/ /\ UNCHANGED exitCode
          /\ IF Truthy(env.PR_NUMBER) /\ prInfo # "null"
             THEN /\ ops' = ops \o <<Event("completion", "ok", 1),
                                     Event("createComment", "request", 0)>>
                  /\ pc' = "awaitComment"
             ELSE /\ ops' = ops \o <<Event("completion", "ok", 1),
                                     Event("writeFile", "request", 0)>>
                  /\ pc' = "awaitSummary"
    /\ UNCHANGED <<script, env, mcpClient, page, allIssues, prInfo, summary, pending>>
    /\ UNCHANGED dataVars
    /\ UNCHANGED docVars

\* createComment resolved, or threw into runAnalysis' catch
MA_CommentResolved ==
    /\ script = "mcp"
    /\ pc = "awaitComment"
    /\ \/ /\ ops' = ops \o <<Event("createComment", "ok", 0), Event("writeFile", "request", 0)>>
          /\ pc' = "awaitSummary"
          /\ UNCHANGED exitCode
       \/ /\ ops' = Append(ops, Event("createComment", "fail", 0))
          /\ Exit(1)
    /\ UNCHANGED <<script, env, mcpClient, page, allIssues, prInfo, summary, pending>>
    /\ UNCHANGED dataVars
    /\ UNCHANGED docVars

\* fs.writeFile of ai-analysis-summary.md resolved, and the script ends, or threw
MA_SummaryResolved ==
    /\ script = "mcp"
    /\ pc = "awaitSummary"
    /\ \/ /\ summary' = TRUE
          /\ ops' = Append(ops, Event("writeFile", "ok", 0))
          /\ Exit(0)
       \/ /\ ops' = Append(ops, Event("writeFile", "fail", 0))
          /\ Exit(1)
          /\ UNCHANGED summary
    /\ UNCHANGED <<script, env, mcpClient, page, allIssues, prInfo, pending>>
    /\ UNCHANGED dataVars
    /\ UNCHANGED docVars

(***************************************************************************)
(* The runs: a script, an environment, a README.md.                        *)
(***************************************************************************)
ReadmeEnvs ==
    { [NoEnv EXCEPT !.GITHUB_TOKEN = t, !.REPO_OWNER = r[1], !.REPO_NAME = r[2],
                    !.GITHUB_REPOSITORY = r[3]] :
        t \in {"unset", "empty", "set"},
        r \in { <<"set", "set", "unset">>, <<"unset", "unset", "owner/repo">>,
                <<"unset", "unset", "unset">>, <<"unset", "unset", "owner">>,
                <<"set", "unset", "unset">>, <<"unset", "unset", "empty">> } }

AnalysisEnvs ==
    { [NoEnv EXCEPT !.GITHUB_TOKEN = "set", !.OPENAI_API_KEY = k, !.GITHUB_REPOSITORY = r,
                    !.PR_NUMBER = n] :
        k \in {"unset", "empty", "set"},
        r \in {"unset", "empty", "owner/repo"},
        n \in {"unset", "set"} }

StartingReadmes ==
    { [exists |-> FALSE, text |-> <<>>],
      [exists |-> TRUE,  text |-> <<"#", " ", "Title", NL, NL, "Intro", NL>>] }

InitRun ==
    /\ script \in {"readme", "openai", "mcp"}
    /\ env \in (IF script = "readme" THEN ReadmeEnvs ELSE AnalysisEnvs)
    /\ readme \in (IF script = "readme" THEN StartingReadmes
                   ELSE {[exists |-> FALSE, text |-> <<>>]})
    /\ unrelated = [before |-> <<>>, after |-> <<>>, generated |-> <<>>, original |-> readme]
    /\ tracker \in (IF script = "readme" THEN {IssuePool, TrackerPool} ELSE {<<>>})
    /\ runs = 0
    /\ pc = "start"
    /\ mcpClient = "null"
    /\ page = 0
    /\ allIssues = <<>>
    /\ prInfo = "null"
    /\ ops = <<>>
    /\ exitCode = NoExit
    /\ summary = FALSE
    /\ pending = <<>>
    /\ issues = <<>>
    /\ categories = EmptyCategories
    /\ section = <<>>
    /\ now = 125
    /\ stage = "idle"

NextRun ==
    \/ RM_Start \/ RM_ConnectResolved \/ RM_PageFailed \/ RM_PageResolved
    \/ RM_ReadResolved \/ RM_WriteResolved \/ RM_CloseResolved \/ RM_Signal
    \/ OA_Start \/ OA_PrResolved \/ OA_DiffResolved \/ OA_TestResolved
    \/ OA_CompletionResolved \/ OA_CommentResolved \/ OA_SummaryResolved
    \/ MA_Start \/ MA_PrResolved \/ MA_DiffResolved \/ MA_CompletionResolved
    \/ MA_CommentResolved \/ MA_SummaryResolved

SpecRun == InitRun /\ [][NextRun]_vars

\* reading the history of a run
Happened(op, ev) == \E i \in 1..Len(ops) : ops[i].op = op /\ ops[i].ev = ev
Issued(op) == Happened(op, "request")
EventsOf(op) == SelectSeq(ops, LAMBDA e : e.op = op)
ListRequests == SelectSeq(ops, LAMBDA e : e.op = "list_issues" /\ e.ev = "request")
ListResponses == SelectSeq(ops, LAMBDA e : e.op = "list_issues" /\ e.ev # "request")

FetchedZero == \E i \in 1..Len(ops) : ops[i] = Event("fetched", "ok", 0)

\* C6: when fetchAllIssues returns no issue, main returns at once: nothing
\* is categorised or rendered, updateReadme is not called, and README.md is
\* neither created nor changed.
C6_ZeroIssuesEarlyExit ==
    (script = "readme" /\ FetchedZero) =>
        /\ EventsOf("categorize") = <<>>
        /\ EventsOf("render") = <<>>
        /\ EventsOf("readFile") = <<>>
        /\ EventsOf("writeFile") = <<>>
        /\ categories = EmptyCategories
        /\ section = <<>>
        /\ readme = unrelated.original
        /\ pc \in {"awaitClose", "exited"}

C6_Witness ==
    /\ script = "readme"
    /\ FetchedZero
    /\ pc = "exited"
    /\ exitCode = 0
    /\ ~readme.exists

\* the items of the pages 1..n, in page order, page i holding counts[i] items
RECURSIVE PagesConcat(_, _)
PagesConcat(counts, n) ==
    IF n = 0 THEN <<>> ELSE PagesConcat(counts, n - 1) \o PageItems(n, counts[n])

\* C7: pages are requested in the order 1, 2, 3, ...; fetchAllIssues returns
\* at the first page holding fewer than 100 items (an empty page, or a
\* response with no text, holds none), and what it returns is every item of
\* every page up to that one, in page order, none dropped and none twice.
C7_FetchAll ==
    script = "readme" =>
        /\ \A i \in 1..Len(ListRequests) : ListRequests[i].arg = i
        /\ Happened("fetched", "ok") =>
              LET n == Len(ListRequests)
              IN  /\ Len(ListResponses) = n
                  /\ \A i \in 1..(n - 1) :
                        ListResponses[i].ev = "text" /\ ListResponses[i].arg = 100
                  /\ ListResponses[n].ev \in {"text", "notext"}
                  /\ ListResponses[n].arg < 100
                  /\ allIssues = PagesConcat([i \in 1..n |-> ListResponses[i].arg], n)
                  /\ issues = allIssues
                  /\ \A i \in 1..Len(allIssues) : allIssues[i].number = i

C7_Witness ==
    /\ script = "readme"
    /\ Happened("fetched", "ok")
    /\ Len(ListRequests) = 3
    /\ Len(allIssues) = 257

\* C8: when a list request fails, on whatever page, the run ends there with
\* a non-zero exit code: nothing fetched so far is categorised or rendered
\* and README.md is not written.
C8_ListFailureAborts ==
    (script = "readme" /\ Happened("list_issues", "fail")) =>
        /\ pc = "exited"
        /\ exitCode # NoExit
        /\ exitCode # 0
        /\ ~Happened("fetched", "ok")
        /\ EventsOf("categorize") = <<>>
        /\ EventsOf("render") = <<>>
        /\ EventsOf("readFile") = <<>>
        /\ EventsOf("writeFile") = <<>>
        /\ categories = EmptyCategories
        /\ section = <<>>
        /\ readme = unrelated.original

C8_Witness ==
    /\ script = "readme"
    /\ ops # <<>>
    /\ ops[Len(ops)] = Event("list_issues", "fail", 3)
    /\ Len(allIssues) = 200
    /\ exitCode = 1

\* the configuration each script requires
Missing(v) == v \in {"unset", "empty"}

ConfigMissing ==
    IF script = "readme"
    THEN \/ Missing(env.GITHUB_TOKEN)
         \/ (Missing(env.REPO_OWNER) /\ env.GITHUB_REPOSITORY \notin {"owner", "owner/repo"})
         \/ (Missing(env.REPO_NAME) /\ env.GITHUB_REPOSITORY # "owner/repo")
    ELSE Missing(env.OPENAI_API_KEY) \/ Missing(env.GITHUB_REPOSITORY)

\* C9: in every script, a run started without a required credential or
\* repository identifier issues no connection, request or subprocess at all
\* and exits non-zero.
C9_ConfigCheckedFirst ==
    ConfigMissing =>
        /\ ops = <<>>
        /\ pc \in {"start", "exited"}
        /\ pc = "exited" => exitCode # 0

\* C10: in every analysis script, in a run with its configuration present,
\* after createComment has failed the summary file is still written, and the
\* run does not exit non-zero unless writing the summary fails.
C10_CommentFailureSwallowed ==
    (script \in {"openai", "mcp"} /\ ~ConfigMissing /\ Happened("createComment", "fail")) =>
        /\ Issued("writeFile")
        /\ pc = "exited" =>
              \/ summary /\ exitCode = 0
              \/ Happened("writeFile", "fail")

(***************************************************************************)
(* Entries of unexpected shape (SpecCat).                                  *)
(***************************************************************************)
WellFormed(x) ==
    /\ x.entry = "object"
    /\ ~(x.hasLabels /\ \E i \in 1..Len(x.labels) : x.labels[i].kind = "number")

\* C11: categorizeIssues never aborts on a list that holds an entry of
\* unexpected shape (a null entry, a label whose name is not text): it
\* returns, and every well-formed issue of the list that is not a pull
\* request is in the open or the closed bucket.
C11_MalformedTolerated ==
    /\ stage # "threw"
    /\ stage = "categorized" =>
          \A x \in Inputs :
              (WellFormed(x) /\ ~x.pull_request) =>
                  x \in Range(categories.open) \cup Range(categories.closed)

(***************************************************************************)
(* The label subsections and the recently-closed subsection (SpecRender).  *)
(***************************************************************************)
\* the issue lines under the heading name, or <<>> when there is no such heading
IssueLinesOf(name) ==
    LET heads == HeadingIndexes(section, name)
    IN  IF heads = {} THEN <<>>
        ELSE SelectSeq(SubsectionAfter(section, CHOOSE i \in heads : TRUE), IsIssueLine)

NumbersOf(list) == [k \in 1..Len(list) |-> ToString(list[k].number)]
NumbersListed(name) == [k \in 1..Len(IssueLinesOf(name)) |-> IssueLinesOf(name)[k][5]]

FirstOf(list, n) == SubSeq(list, 1, IF Len(list) < n THEN Len(list) ELSE n)

\* the subsection name is there exactly when expected is not empty, once,
\* and lists the issues of expected in order
SubsectionShows(name, expected) ==
    /\ Cardinality(HeadingIndexes(section, name)) = (IF expected = <<>> THEN 0 ELSE 1)
    /\ NumbersListed(name) = NumbersOf(expected)

\* C12: the bug, enhancement and help-wanted subsections list the first
\* min(n, 10), min(n, 10) and min(n, 5) issues of their bucket in bucket
\* order, the good-first-issue subsection lists its whole bucket, and each
\* subsection is there exactly when its bucket is not empty.
C12_LabelSubsectionCaps ==
    stage = "rendered" =>
        /\ SubsectionShows("Bug Reports", FirstOf(categories.bugs, 10))
        /\ SubsectionShows("Feature Requests & Enhancements", FirstOf(categories.enhancements, 10))
        /\ SubsectionShows("Help Wanted", FirstOf(categories.help_wanted, 5))
        /\ SubsectionShows("Good First Issues", categories.good_first_issue)

C12_Witness ==
    /\ stage = "rendered"
    /\ Len(categories.help_wanted) = 25
    /\ Len(categories.good_first_issue) = 25
    /\ Len(IssueLinesOf("Help Wanted")) = 5
    /\ Len(IssueLinesOf("Good First Issues")) = 25
    /\ categories.bugs = <<>>
    /\ HeadingIndexes(section, "Bug Reports") = {}

\* closed less than 30 days before the render time
ClosedWithin30(x) == x.closed_at # NoDate /\ now - x.closed_at < 30

\* C13: the recently-closed subsection lists the issues of the closed bucket
\* closed less than 30 days before the render time, in bucket order, the
\* first 10 of them only; an issue without closed_at or closed earlier is
\* not listed; the subsection is left out when no closed issue qualifies.
C13_RecentlyClosed ==
    stage = "rendered" =>
        /\ SubsectionShows("Recently Closed Issues",
                           FirstOf(SelectSeq(categories.closed, ClosedWithin30), 10))
        /\ \A x \in Range(categories.closed) :
              (x.closed_at = NoDate \/ now - x.closed_at > 30) =>
                  \A k \in 1..Len(NumbersListed("Recently Closed Issues")) :
                      NumbersListed("Recently Closed Issues")[k] # ToString(x.number)

C13_Witness ==
    /\ stage = "rendered"
    /\ \E x \in Range(categories.closed) : x.closed_at = NoDate
    /\ \E x \in Range(categories.closed) : x.closed_at # NoDate /\ now - x.closed_at > 30
    /\ NumbersListed("Recently Closed Issues") = <<"1", "5">>

(***************************************************************************)
(* The issue line (SpecRender).                                            *)
(***************************************************************************)
IconTokens == {"locked", "unlocked"}

HasIcon(line) == \E i \in 1..Len(line) : line[i] \in IconTokens

\* the line without its icon and the blank before it
StripIcon(line) ==
    IF Len(line) >= 8 /\ line[8] \in IconTokens
    THEN SubSeq(line, 1, 6) \o SubSeq(line, 9, Len(line))
    ELSE line

\* the line of issue x under the heading name
LineOf(name, x) ==
    LET lines == IssueLinesOf(name)
    IN  lines[CHOOSE k \in 1..Len(lines) : lines[k][5] = ToString(x.number)]

Listed(name, x) ==
    \E k \in 1..Len(IssueLinesOf(name)) : IssueLinesOf(name)[k][5] = ToString(x.number)

\* the lines of the single-state subsections carry no state icon
SingleStateNoIcon ==
    \A name \in {"Open Issues", "Recently Closed Issues"} :
        \A k \in 1..Len(IssueLinesOf(name)) : ~HasIcon(IssueLinesOf(name)[k])

\* an open, unassigned issue listed under both headings has the same number,
\* link, title and labels in both lines, and no assignee clause
OpenBugSameLine ==
    \A x \in Range(categories.open) \cap Range(categories.bugs) :
        (x.assignee = "none" /\ Listed("Open Issues", x) /\ Listed("Bug Reports", x)) =>
            /\ StripIcon(LineOf("Bug Reports", x)) = LineOf("Open Issues", x)
            /\ \A i \in 1..Len(LineOf("Open Issues", x)) :
                  LineOf("Open Issues", x)[i] # "Assigned to @"

\* C14: the lines of the open-issues list and of the recently-closed list
\* carry no state icon, and an open, unassigned issue with a bug-like label
\* is listed in the open-issues list and in the bug list as the same line
\* of number, link, title and labels, without an assignee clause.
C14_IconOnlyWhenMixed ==
    stage = "rendered" => (SingleStateNoIcon /\ OpenBugSameLine)

(***************************************************************************)
(* The two forms of a label (SpecRender).                                  *)
(***************************************************************************)
\* the label at position i given in the other form: text t as an object
\* named t, an object named t as the text t
SwapLabelAt(x, i) ==
    [x EXCEPT !.labels[i] =
        IF @.kind = "string" THEN ObjLabel(@.name)
        ELSE IF @.kind = "object" THEN StrLabel(@.name)
        ELSE @]

\* the issue without its label at position i
WithoutLabelAt(x, i) ==
    [x EXCEPT !.labels = SubSeq(@, 1, i - 1) \o SubSeq(@, i + 1, Len(@))]

\* the buckets categorizeIssues puts the issue in
BucketsOf(x) == { b \in BucketNames : CategorizeOne(EmptyCategories, x)[b] # <<>> }

\* both functions give the same result for x and y
SameTreatment(x, y) ==
    /\ BucketsOf(x) = BucketsOf(y)
    /\ \A includeState \in BOOLEAN :
          formatIssueForReadme(x, includeState) = formatIssueForReadme(y, includeState)

\* the form of a label decides nothing
LabelFormIrrelevant ==
    \A x \in Inputs :
        (WellFormed(x) /\ x.hasLabels) =>
            \A i \in 1..Len(x.labels) : SameTreatment(x, SwapLabelAt(x, i))

\* a missing labels field is an empty list of labels
MissingLabelsAsEmpty ==
    \A x \in Inputs :
        (WellFormed(x) /\ ~x.hasLabels) =>
            SameTreatment(x, [x EXCEPT !.hasLabels = TRUE, !.labels = <<>>])

\* a label without a name is no label
NamelessLabelAsAbsent ==
    \A x \in Inputs :
        (WellFormed(x) /\ x.hasLabels) =>
            \A i \in 1..Len(x.labels) :
                x.labels[i].kind \in {"noname", "null"} =>
                    SameTreatment(x, WithoutLabelAt(x, i))

\* C15: for every issue, giving one of its labels in the other form (text t
\* or an object named t) changes neither its buckets nor its rendered line;
\* an issue without a labels field is treated as one with no label; and a
\* label object without a name is treated as no label, by the categoriser
\* and by the renderer alike.
C15_LabelFormsAgree ==
    stage = "rendered" =>
        (LabelFormIrrelevant /\ MissingLabelsAsEmpty /\ NamelessLabelAsAbsent)

(***************************************************************************)
(* The order of the operations of the README updater (SpecRun).            *)
(***************************************************************************)
IsRequest(e) == e.ev = "request"

\* the operations awaited by main: the marks "fetched", "categorize" and
\* "render" are steps of main itself
Awaited == {"connect", "list_issues", "readFile", "writeFile", "close"}

\* the positions in ops of the events of op with outcome ev
Positions(op, ev) == { i \in 1..Len(ops) : ops[i].op = op /\ ops[i].ev = ev }

\* every position of S is before every position of T
AllBefore(S, T) == \A i \in S : \A j \in T : i < j

\* between two requests the first one has resolved
OneAtATime ==
    \A i \in 1..Len(ops) : \A j \in (i + 1)..Len(ops) :
        (IsRequest(ops[i]) /\ IsRequest(ops[j])) =>
            \E k \in (i + 1)..(j - 1) : ops[k].op = ops[i].op /\ ~IsRequest(ops[k])

ListResolutions == { i \in 1..Len(ops) : ops[i].op = "list_issues" /\ ~IsRequest(ops[i]) }

\* C16: in a run of the README updater one operation is outstanding at a
\* time and page k+1 is requested after page k has resolved; README.md is
\* read at most once and written at most once; and fetching, categorising,
\* rendering and updating happen once each, in that order, the write after
\* the last page has resolved.
C16_StrictlySequential ==
    script = "readme" =>
        /\ OneAtATime
        /\ \A i \in 1..Len(ListRequests) : ListRequests[i].arg = i
        /\ \A op \in {"fetched", "categorize", "render"} : Len(EventsOf(op)) <= 1
        /\ \A op \in {"readFile", "writeFile"} : Cardinality(Positions(op, "request")) <= 1
        /\ AllBefore(ListResolutions, Positions("fetched", "ok"))
        /\ AllBefore(Positions("fetched", "ok"), Positions("categorize", "ok"))
        /\ AllBefore(Positions("categorize", "ok"), Positions("render", "ok"))
        /\ AllBefore(Positions("render", "ok"), Positions("readFile", "request"))
        /\ AllBefore(Positions("readFile", "request"), Positions("writeFile", "request"))
        /\ Issued("writeFile") => (Happened("categorize", "ok") /\ Happened("render", "ok"))
        /\ Issued("readFile") => (Happened("categorize", "ok") /\ Happened("render", "ok"))

C16_Witness ==
    /\ script = "readme"
    /\ Len(ListRequests) = 2
    /\ Happened("writeFile", "ok")
    /\ pc = "exited"
    /\ runs = 1

(***************************************************************************)
(* The exit code of the README updater (SpecRun).                          *)
(***************************************************************************)
\* an error left a stage: a failed operation, other than the readFile that
\* updateReadme catches itself, or a missing configuration
ErrorRaised ==
    \/ ConfigMissing
    \/ \E i \in 1..Len(ops) :
          ops[i].ev \in {"fail", "unparsable"} /\ ops[i].op # "readFile"

\* the document was updated, or there was no issue, and nothing failed
PipelineCompleted ==
    /\ ~ErrorRaised
    /\ Happened("writeFile", "ok") \/ FetchedZero

Interrupted == Happened("signal", "ok")

\* C17 as stated: a run ends with exit code 0 exactly when the pipeline
\* completed without error, and with another code when some stage raised
\* an error.
C17_AsStated ==
    (script = "readme" /\ pc = "exited") =>
        /\ (exitCode = 0) <=> PipelineCompleted
        /\ ErrorRaised => exitCode # 0

\* C17, amended: the same for the runs that no SIGINT or SIGTERM interrupts;
\* an interrupted run ends with exit code 0 wherever it was.
C17_ExitCodes ==
    (script = "readme" /\ pc = "exited") =>
        IF Interrupted THEN exitCode = 0
        ELSE /\ (exitCode = 0) <=> PipelineCompleted
             /\ ErrorRaised => exitCode # 0

C17_Witness ==
    /\ script = "readme"
    /\ pc = "exited"
    /\ ~Interrupted
    /\ Happened("categorize", "fail")
    /\ exitCode = 1
    /\ ~Issued("readFile")

(***************************************************************************)
(* The pagination loop and the release of the client (SpecRun).            *)
(***************************************************************************)
OnlyFullPages == \A i \in 1..Len(ListResponses) : ListResponses[i].arg = 100

\* C18: against a tracker that answers every request with a full page of
\* 100 items, fetchAllIssues stops requesting on its own: the page number
\* stays below the bound up to which the loop is followed here.
C18_PaginationBounded ==
    (script = "readme" /\ pc = "awaitPage" /\ OnlyFullPages) => page < MaxPages

\* C19: a run whose client was connected has asked the client to disconnect
\* when the process has exited, whether it ended normally, by the early
\* return or by an error.
C19_DisconnectOnEveryExit ==
    (script = "readme" /\ pc = "exited" /\ ~Interrupted /\ Happened("connect", "ok")) =>
        Issued("close")

====
